---- MODULE Spec2Model ----
(***************************************************************************)
(* ULS24 device interface: the HID session (HidMgr.cpp), the exported C    *)
(* facade (InterfaceWrapper.cpp) and the part of hidapi.cpp they use.      *)
(* Arrays keep their C indexing: a buffer is a function over 0..64.        *)
(***************************************************************************)
EXTENDS Integers, Sequences, FiniteSets, TLC

\* ---------------------------------------------------------------- bounds
MaxHandles == 2      \* handles the host can hand out in one run
MaxCands   == 2      \* longest enumeration list
ShortLen   == 4      \* byte count of a short (partial) read
MaxDevs    == 2      \* HID interfaces present on the host

\* ------------------------------------------------------ program constants
TxNum        == 64
RxNum        == 64
HIDREPORTNUM == 64 + 1
GetCmd       == \h02
ReadCmd      == \h04
NULL         == 0
VendorID     == \h0483
ProductID    == \h5750

BufIdx == 0 .. (HIDREPORTNUM - 1)
ZeroBuf == [i \in BufIdx |-> 0]

\* ------------------------------------------------------------ variables
VARIABLES
    DeviceHandle,       \* hid_device* (NULL or a handle id)
    MyDeviceDetected,   \* bool
    g_DeviceDetected,   \* BOOL
    Continue_Flag,      \* BOOL
    chan_num,           \* int
    InputReport,        \* char[HIDREPORTNUM]
    OutputReport,       \* char[HIDREPORTNUM]
    TxData,             \* BYTE[TxNum+1]
    RxData,             \* BYTE[RxNum+1]
    fields,             \* rCmd, rType and RxData[5] as the last decode read them
    openHandles,        \* handles returned by hid_open_path and not yet hid_close'd
    nextHandle,         \* next handle id the host hands out
    trace,              \* transport calls made by the last operation, in order
    g_InterfaceObj,     \* TRUE when the facade holds an interface object
    pc,                 \* "idle", or "init" while ULS24_Initialize configures
    lastOp,             \* name of the last operation
    retval,             \* value returned by the last operation
    preDet,             \* MyDeviceDetected when the last operation started
    preHandle,          \* DeviceHandle when the last operation started
    prevFailH,          \* handle of the failed I/O when the operation before
                        \* the last one was an exchange that failed, else NULL
    hidCall,            \* the last direct hidapi call: its arguments,
                        \* what the host did, and what the call did and returned
    thr,                \* per calling thread: where it is in ReadAndWriteToDevice
                        \* and the device pointer its hidapi call was given
    ctl                 \* function and argument of the last operation when it
                        \* was a control call of the facade

vars == <<DeviceHandle, MyDeviceDetected, g_DeviceDetected, Continue_Flag,
          chan_num, InputReport, OutputReport, TxData, RxData, fields,
          openHandles, nextHandle, trace, g_InterfaceObj, pc, lastOp, retval,
          preDet, preHandle, prevFailH, hidCall, thr, ctl>>

\* The session state the functions of HidMgr.cpp read and write.
Cur ==
    [DeviceHandle |-> DeviceHandle, MyDeviceDetected |-> MyDeviceDetected,
     g_DeviceDetected |-> g_DeviceDetected, Continue_Flag |-> Continue_Flag,
     chan_num |-> chan_num, InputReport |-> InputReport,
     OutputReport |-> OutputReport, TxData |-> TxData, RxData |-> RxData,
     fields |-> fields, openHandles |-> openHandles,
     nextHandle |-> nextHandle, trace |-> <<>>]

Store(s) ==
    /\ DeviceHandle' = s.DeviceHandle
    /\ MyDeviceDetected' = s.MyDeviceDetected
    /\ g_DeviceDetected' = s.g_DeviceDetected
    /\ Continue_Flag' = s.Continue_Flag
    /\ chan_num' = s.chan_num
    /\ InputReport' = s.InputReport
    /\ OutputReport' = s.OutputReport
    /\ TxData' = s.TxData
    /\ RxData' = s.RxData
    /\ fields' = s.fields
    /\ openHandles' = s.openHandles
    /\ nextHandle' = s.nextHandle
    /\ trace' = s.trace

Log(s, e) == [s EXCEPT !.trace = Append(@, e)]

\* ------------------------------------------------------------- hidapi.cpp
\* hid_enumerate: the host's answer, one entry per matching device; the
\* entry tells whether hid_open_path on its path will succeed.
hid_enumerate(s, cands) == Log(s, <<"enumerate", Len(cands), 0>>)

\* The walk of hid_enumerate over the host's HID interfaces from index i on.
\* An interface whose detail query or CreateFile fails is skipped.
\* HidD_GetAttributes fills attrib when it succeeds; its result is not
\* tested, so after a failure attrib keeps what it held. An entry of the list
\* is the interface's path (its index) with the identifiers in attrib.
RECURSIVE EnumLoop(_, _, _, _, _)
EnumLoop(devs, i, attrib, vendor_id, product_id) ==
    IF i > Len(devs)
    THEN <<>>
    ELSE IF ~devs[i].detail \/ ~devs[i].open
    THEN EnumLoop(devs, i + 1, attrib, vendor_id, product_id)
    ELSE LET a == IF devs[i].attrs
                  THEN [VendorID |-> devs[i].vendor, ProductID |-> devs[i].product]
                  ELSE attrib
             rest == EnumLoop(devs, i + 1, a, vendor_id, product_id)
         IN  IF (vendor_id = 0 \/ a.VendorID = vendor_id) /\
                (product_id = 0 \/ a.ProductID = product_id)
             THEN <<[path |-> i, vendor_id |-> a.VendorID,
                     product_id |-> a.ProductID]>> \o rest
             ELSE rest

\* hid_enumerate(vendor_id, product_id) on the host's interfaces devs;
\* attrib0 is what the local attrib holds before the first interface.
hid_enumerate_list(devs, attrib0, vendor_id, product_id) ==
    EnumLoop(devs, 1, attrib0, vendor_id, product_id)

\* hid_open_path: a fresh handle, or NULL when CreateFile fails.
hid_open_path(s, i, ok) ==
    IF ok
    THEN [Log(s, <<"open", i, s.nextHandle>>) EXCEPT
             !.openHandles = @ \cup {s.nextHandle},
             !.nextHandle = @ + 1]
    ELSE Log(s, <<"open", i, NULL>>)

OpenResult(s, ok) == IF ok THEN s.nextHandle ELSE NULL

\* hid_close without the test for a NULL device.
hid_close_NoNullCheck(s, device) ==
    [Log(s, <<"close", device, 0>>) EXCEPT !.openHandles = @ \ {device}]

\* hid_close: nothing on NULL, otherwise releases the handle.
hid_close(s, device) ==
    IF device = NULL
    THEN s
    ELSE [Log(s, <<"close", device, 0>>) EXCEPT !.openHandles = @ \ {device}]

\* hid_write: the return value is the host's result for this call; the
\* call is logged with the length it was given.
hid_write(s, device, length, result) ==
    Log(s, <<"write", device, result, length>>)

\* hid_read_timeout: result > 0 stores that many bytes of data in the
\* buffer; the call is logged with the length it asked for.
hid_read_timeout(s, device, data, length, result) ==
    [Log(s, <<"read", device, result, length>>) EXCEPT
        !.InputReport = [i \in BufIdx |->
                            IF result > 0 /\ i < result /\ i < length
                            THEN data[i] ELSE @[i]]]

\* What the host can do during one hid_write call: WriteFile completes at
\* once, fails, or stays pending; GetOverlappedResult, which waits for the
\* completion, then succeeds, reports a failed write, or fails to wait;
\* bytes transferred. Steps the call does not reach keep one fixed value.
WriteOsOutcomes ==
    {o \in [writeFile : {"done", "pending", "error"},
            overlapped : {"ok", "io_failed", "wait_failed"},
            bytes : {0, ShortLen, HIDREPORTNUM}] :
        /\ o.writeFile # "pending" => o.overlapped = "wait_failed"
        /\ (o.writeFile = "error" \/ (o.writeFile = "pending" /\ o.overlapped # "ok"))
              => o.bytes = 0}

\* hid_write returning bytes_written without waiting for a pending write.
hid_write_result_NoWait(device, o) ==
    IF device = NULL
    THEN [ret |-> -1, pending |-> FALSE]
    ELSE IF o.writeFile = "done"
    THEN [ret |-> o.bytes, pending |-> FALSE]
    ELSE IF o.writeFile = "error"
    THEN [ret |-> -1, pending |-> FALSE]
    ELSE [ret |-> 0, pending |-> TRUE]

\* hid_write on a device from hid_open_path: the value returned and whether
\* the write it submitted is still outstanding at the return.
hid_write_result(device, o) ==
    IF device = NULL
    THEN [ret |-> -1, pending |-> FALSE]
    ELSE IF o.writeFile = "done"
    THEN [ret |-> o.bytes, pending |-> FALSE]
    ELSE IF o.writeFile = "error"
    THEN [ret |-> -1, pending |-> FALSE]
    ELSE IF o.overlapped = "ok"
    THEN [ret |-> o.bytes, pending |-> FALSE]
    ELSE [ret |-> -1, pending |-> o.overlapped = "wait_failed"]

\* What the host can do during one hid_read_timeout call: ReadFile completes
\* at once, fails, or stays pending; the wait on the event is signaled, times
\* out or fails; GetOverlappedResult succeeds or not; bytes transferred.
\* Steps the call does not reach are not drawn (they keep one fixed value).
ReadOsOutcomes ==
    {o \in [readFile : {"done", "pending", "error"},
            wait : {"signaled", "timeout", "failed"},
            overlapped : BOOLEAN,
            bytes : {0, ShortLen, HIDREPORTNUM}] :
        /\ o.readFile # "pending" => (o.wait = "failed" /\ ~o.overlapped)
        /\ o.wait # "signaled" => ~o.overlapped
        /\ (o.readFile = "error" \/ (o.readFile = "pending" /\ ~o.overlapped))
              => o.bytes = 0}

NoReadOs ==
    [readFile |-> "error", wait |-> "failed", overlapped |-> FALSE, bytes |-> 0]

\* hid_read_timeout without the CancelIo on the timeout path.
hid_read_timeout_result_NoCancel(device, o) ==
    IF device = NULL
    THEN [ret |-> -1, cancelIo |-> FALSE, pending |-> FALSE]
    ELSE IF o.readFile = "done"
    THEN [ret |-> o.bytes, cancelIo |-> FALSE, pending |-> FALSE]
    ELSE IF o.readFile = "error"
    THEN [ret |-> -1, cancelIo |-> FALSE, pending |-> FALSE]
    ELSE IF o.wait = "signaled"
    THEN IF o.overlapped
         THEN [ret |-> o.bytes, cancelIo |-> FALSE, pending |-> FALSE]
         ELSE [ret |-> -1, cancelIo |-> FALSE, pending |-> FALSE]
    ELSE IF o.wait = "timeout"
    THEN [ret |-> 0, cancelIo |-> FALSE, pending |-> TRUE]
    ELSE [ret |-> -1, cancelIo |-> FALSE, pending |-> TRUE]

\* hid_read_timeout on a device from hid_open_path: the value returned,
\* whether CancelIo was called, and whether the read it submitted is still
\* outstanding at the return.
hid_read_timeout_result(device, o) ==
    IF device = NULL
    THEN [ret |-> -1, cancelIo |-> FALSE, pending |-> FALSE]
    ELSE IF o.readFile = "done"
    THEN [ret |-> o.bytes, cancelIo |-> FALSE, pending |-> FALSE]
    ELSE IF o.readFile = "error"
    THEN [ret |-> -1, cancelIo |-> FALSE, pending |-> FALSE]
    ELSE IF o.wait = "signaled"
    THEN IF o.overlapped
         THEN [ret |-> o.bytes, cancelIo |-> FALSE, pending |-> FALSE]
         ELSE [ret |-> -1, cancelIo |-> FALSE, pending |-> FALSE]
    ELSE IF o.wait = "timeout"
    THEN [ret |-> 0, cancelIo |-> TRUE, pending |-> FALSE]
    ELSE [ret |-> -1, cancelIo |-> FALSE, pending |-> TRUE]

\* -------------------------------------------------------------- HidMgr.cpp
\* FindTheHID's loop without the break after a successful open.
RECURSIVE FindLoop_NoBreak(_, _, _)
FindLoop_NoBreak(s, cands, i) ==
    IF i > Len(cands)
    THEN s
    ELSE LET s1 == [hid_open_path(s, i, cands[i]) EXCEPT
                       !.DeviceHandle = OpenResult(s, cands[i])]
         IN  IF s1.DeviceHandle # NULL
             THEN FindLoop_NoBreak([s1 EXCEPT !.MyDeviceDetected = TRUE],
                                   cands, i + 1)
             ELSE FindLoop_NoBreak(s1, cands, i + 1)

\* The while loop of FindTheHID from candidate i on: every open overwrites
\* DeviceHandle; the first non-NULL result ends the loop.
RECURSIVE FindLoop(_, _, _)
FindLoop(s, cands, i) ==
    IF i > Len(cands)
    THEN s
    ELSE LET s1 == [hid_open_path(s, i, cands[i]) EXCEPT
                       !.DeviceHandle = OpenResult(s, cands[i])]
         IN  IF s1.DeviceHandle # NULL
             THEN [s1 EXCEPT !.MyDeviceDetected = TRUE]
             ELSE FindLoop(s1, cands, i + 1)

\* FindTheHID without the reset of the detection flag before the loop.
FindTheHID_KeepsDetected(s, cands) ==
    LET s1 == hid_enumerate(s, cands)
        s2 == FindLoop(s1, cands, 1)
    IN  [s2 EXCEPT !.g_DeviceDetected = s2.MyDeviceDetected]

\* FindTheHID also putting the protocol state back to its start values.
FindTheHID_ResetsProtocol(s, cands) ==
    LET s1 == [hid_enumerate(s, cands) EXCEPT !.MyDeviceDetected = FALSE]
        s2 == FindLoop(s1, cands, 1)
    IN  [s2 EXCEPT !.g_DeviceDetected = s2.MyDeviceDetected,
                   !.chan_num = 1, !.Continue_Flag = FALSE]

FindTheHID(s, cands) ==
    LET s1 == [hid_enumerate(s, cands) EXCEPT !.MyDeviceDetected = FALSE]
        s2 == FindLoop(s1, cands, 1)
    IN  [s2 EXCEPT !.g_DeviceDetected = s2.MyDeviceDetected]

\* CloseHandles leaving the closed handle in DeviceHandle.
CloseHandles_KeepsPointer(s) ==
    IF s.DeviceHandle # NULL
    THEN hid_close(s, s.DeviceHandle)
    ELSE s

CloseHandles(s) ==
    IF s.DeviceHandle # NULL
    THEN [hid_close(s, s.DeviceHandle) EXCEPT !.DeviceHandle = NULL]
    ELSE s

\* The copy into OutputReport without the shift past the report identifier.
EncodeReport_NoShift(tx) == [i \in BufIdx |-> IF i = 0 THEN 0 ELSE tx[i]]

\* OutputReport as WriteHIDOutputReport builds it from TxData.
EncodeReport(tx) == [i \in BufIdx |-> IF i = 0 THEN 0 ELSE tx[i - 1]]

\* WriteHIDOutputReport closing the device on failure without going through
\* CloseHandles, so that DeviceHandle keeps the closed handle.
WriteHIDOutputReport_KeepsHandle(s, wres) ==
    LET s1 == [s EXCEPT !.OutputReport = EncodeReport(s.TxData)]
    IN  IF s1.DeviceHandle # NULL
        THEN LET s2 == hid_write(s1, s1.DeviceHandle, HIDREPORTNUM, wres)
             IN  IF wres < 0
                 THEN [hid_close(s2, s2.DeviceHandle) EXCEPT !.MyDeviceDetected = FALSE]
                 ELSE s2
        ELSE s1

\* WriteHIDOutputReport closing the handle on failure but leaving
\* MyDeviceDetected set.
WriteHIDOutputReport_KeepsDetected(s, wres) ==
    LET s1 == [s EXCEPT !.OutputReport = EncodeReport(s.TxData)]
    IN  IF s1.DeviceHandle # NULL
        THEN LET s2 == hid_write(s1, s1.DeviceHandle, HIDREPORTNUM, wres)
             IN  IF wres < 0 THEN CloseHandles(s2) ELSE s2
        ELSE s1

WriteHIDOutputReport(s, wres) ==
    LET s1 == [s EXCEPT !.OutputReport = EncodeReport(s.TxData)]
    IN  IF s1.DeviceHandle # NULL
        THEN LET s2 == hid_write(s1, s1.DeviceHandle, HIDREPORTNUM, wres)
             IN  IF wres < 0
                 THEN [CloseHandles(s2) EXCEPT !.MyDeviceDetected = FALSE]
                 ELSE s2
        ELSE s1

\* The copy loop without the skip of the report identifier.
StripReportId_NoSkip(rx, inp) ==
    [k \in BufIdx |-> IF k < HIDREPORTNUM - 1 THEN inp[k] ELSE rx[k]]

\* RxData after the copy loop: RxData[k] = InputReport[k + 1], k < 64.
StripReportId(rx, inp) ==
    [k \in BufIdx |-> IF k < HIDREPORTNUM - 1 THEN inp[k + 1] ELSE rx[k]]

\* rCmd, rType and the marker byte the decoder reads.
ResponseFields(rx) ==
    [command_echo |-> rx[2], response_type |-> rx[4], marker_byte |-> rx[5]]

ChannelStyle(rType) ==
    (rType = \h01) \/ (rType = \h02) \/ (rType = \h12) \/
    (rType = \h22) \/ (rType = \h32) \/ (rType = \h03)

\* The status-style test taken as "anything that is not channel-style".
StatusStyle_AnyOther(rType) == TRUE

StatusStyle(rType) == (rType = \h07) \/ (rType = \h08) \/ (rType = \h0b)

\* The channel without the division by 16.
ChanOfType_NoShift(rType) == ((rType \div 16) * 16) + 1

\* The channel without the + 1.
ChanOfType_ZeroBased(rType) == ((rType \div 16) * 16) \div 16

\* (rType & 0xF0) / 16 + 1 on a byte.
ChanOfType(rType) == (((rType \div 16) * 16) \div 16) + 1

\* The marker test without the 0xf1 code.
ChannelMarkerStops_Only0b(m) == (m = \h0b)

ChannelMarkerStops(m) == (m = \h0b) \/ (m = \hf1)

\* The status marker test against the channel branch's code.
StatusMarkerStops_0b(m) == (m = \h0b)

StatusMarkerStops(m) == (m = \h17)

\* The switch on rCmd with a default branch that gives the device up when the
\* command echo is not recognized.
DecodeResponse_UnknownFaults(s) ==
    LET f == ResponseFields(s.RxData)
        s1 == [s EXCEPT !.fields = f]
    IN  IF f.command_echo = GetCmd
        THEN IF ChannelStyle(f.response_type)
             THEN LET s2 == [s1 EXCEPT !.chan_num = ChanOfType(f.response_type)]
                  IN  IF ChannelMarkerStops(f.marker_byte)
                      THEN [s2 EXCEPT !.Continue_Flag = FALSE]
                      ELSE [s2 EXCEPT !.Continue_Flag = TRUE]
             ELSE IF StatusStyle(f.response_type)
                  THEN IF StatusMarkerStops(f.marker_byte)
                       THEN [s1 EXCEPT !.Continue_Flag = FALSE]
                       ELSE [s1 EXCEPT !.Continue_Flag = TRUE]
                  ELSE s1
        ELSE [CloseHandles(s1) EXCEPT !.MyDeviceDetected = FALSE]

\* The switch on rCmd with the 0xf1 code handled as a failed read.
DecodeResponse_SentinelFaults(s) ==
    LET f == ResponseFields(s.RxData)
        s1 == [s EXCEPT !.fields = f]
    IN  IF f.command_echo = GetCmd
        THEN IF ChannelStyle(f.response_type)
             THEN LET s2 == [s1 EXCEPT !.chan_num = ChanOfType(f.response_type)]
                  IN  IF ChannelMarkerStops(f.marker_byte)
                      THEN IF f.marker_byte = \hf1
                           THEN [CloseHandles(s2) EXCEPT
                                    !.Continue_Flag = FALSE,
                                    !.MyDeviceDetected = FALSE]
                           ELSE [s2 EXCEPT !.Continue_Flag = FALSE]
                      ELSE [s2 EXCEPT !.Continue_Flag = TRUE]
             ELSE IF StatusStyle(f.response_type)
                  THEN IF StatusMarkerStops(f.marker_byte)
                       THEN [s1 EXCEPT !.Continue_Flag = FALSE]
                       ELSE [s1 EXCEPT !.Continue_Flag = TRUE]
                  ELSE s1
        ELSE s1

\* The switch on rCmd.
DecodeResponse(s) ==
    LET f == ResponseFields(s.RxData)
        s1 == [s EXCEPT !.fields = f]
    IN  IF f.command_echo = GetCmd
        THEN IF ChannelStyle(f.response_type)
             THEN LET s2 == [s1 EXCEPT !.chan_num = ChanOfType(f.response_type)]
                  IN  IF ChannelMarkerStops(f.marker_byte)
                      THEN [s2 EXCEPT !.Continue_Flag = FALSE]
                      ELSE [s2 EXCEPT !.Continue_Flag = TRUE]
             ELSE IF StatusStyle(f.response_type)
                  THEN IF StatusMarkerStops(f.marker_byte)
                       THEN [s1 EXCEPT !.Continue_Flag = FALSE]
                       ELSE [s1 EXCEPT !.Continue_Flag = TRUE]
                  ELSE s1
        ELSE s1

\* ReadHIDInputReport clearing the secondary detection flag as well when the
\* read times out or fails.
ReadHIDInputReport_ClearsSecondary(s, rres, data) ==
    LET s1 == [s EXCEPT !.InputReport[0] = 0]
    IN  IF s1.DeviceHandle # NULL
        THEN LET s2 == hid_read_timeout(s1, s1.DeviceHandle, data, HIDREPORTNUM, rres)
             IN  IF rres > 0
                 THEN DecodeResponse(
                          [s2 EXCEPT !.RxData = StripReportId(@, s2.InputReport)])
                 ELSE [CloseHandles(s2) EXCEPT !.MyDeviceDetected = FALSE,
                                               !.g_DeviceDetected = FALSE]
        ELSE s1

ReadHIDInputReport(s, rres, data) ==
    LET s1 == [s EXCEPT !.InputReport[0] = 0]
    IN  IF s1.DeviceHandle # NULL
        THEN LET s2 == hid_read_timeout(s1, s1.DeviceHandle, data, HIDREPORTNUM, rres)
             IN  IF rres > 0
                 THEN DecodeResponse(
                          [s2 EXCEPT !.RxData = StripReportId(@, s2.InputReport)])
                 ELSE IF rres = 0
                      THEN [CloseHandles(s2) EXCEPT !.MyDeviceDetected = FALSE]
                      ELSE [CloseHandles(s2) EXCEPT !.MyDeviceDetected = FALSE]
        ELSE s1

\* ReadAndWriteToDevice reading before it writes.
ReadAndWriteToDevice_ReadFirst(s, cands, wres, rres, data) ==
    LET s1 == IF s.MyDeviceDetected = FALSE
              THEN LET f == FindTheHID(s, cands)
                   IN  [f EXCEPT !.MyDeviceDetected = f.MyDeviceDetected]
              ELSE s
    IN  IF s1.MyDeviceDetected = TRUE
        THEN WriteHIDOutputReport(ReadHIDInputReport(s1, rres, data), wres)
        ELSE s1

\* ReadAndWriteToDevice looking for the device on every call.
ReadAndWriteToDevice_AlwaysFind(s, cands, wres, rres, data) ==
    LET f == FindTheHID(s, cands)
        s1 == [f EXCEPT !.MyDeviceDetected = f.MyDeviceDetected]
    IN  IF s1.MyDeviceDetected = TRUE
        THEN ReadHIDInputReport(WriteHIDOutputReport(s1, wres), rres, data)
        ELSE s1

\* ReadAndWriteToDevice without the test that the device was detected.
ReadAndWriteToDevice_NoGuard(s, cands, wres, rres, data) ==
    LET s1 == IF s.MyDeviceDetected = FALSE
              THEN LET f == FindTheHID(s, cands)
                   IN  [f EXCEPT !.MyDeviceDetected = f.MyDeviceDetected]
              ELSE s
    IN  ReadHIDInputReport(WriteHIDOutputReport(s1, wres), rres, data)

ReadAndWriteToDevice(s, cands, wres, rres, data) ==
    LET s1 == IF s.MyDeviceDetected = FALSE
              THEN LET f == FindTheHID(s, cands)
                   IN  [f EXCEPT !.MyDeviceDetected = f.MyDeviceDetected]
              ELSE s
    IN  IF s1.MyDeviceDetected = TRUE
        THEN ReadHIDInputReport(WriteHIDOutputReport(s1, wres), rres, data)
        ELSE s1

\* ------------------------------------------------------------ environment
\* A 64-byte payload (kept in a TxNum+1 buffer) with the given bytes at
\* indexes 2, 4 and 5 and a byte that tells its own index everywhere else.
Payload(c, t, m) ==
    [i \in BufIdx |->
        IF i = 2 THEN c
        ELSE IF i = 4 THEN t
        ELSE IF i = 5 THEN m
        ELSE IF i = TxNum THEN 0
        ELSE \ha0 + i]

TypeBytes == {\h01, \h02, \h12, \h22, \h32, \h03, \h07, \h08, \h0b, \h42}
MarkerBytes == {\h0b, \hf1, \h17, \h05}

Payloads ==
    {Payload(GetCmd, t, m) : t \in TypeBytes, m \in MarkerBytes} \cup
    {Payload(ReadCmd, t, m) : t \in {\h22, \h08}, m \in {\h05, \h17}}

\* What the application puts in TxData before an exchange.
TxPayloads == {Payload(GetCmd, \h22, \h05), Payload(ReadCmd, \h01, \h0b)}

\* What the device may answer: the echo of some payload.
DeviceReports == {EncodeReport(p) : p \in Payloads}

\* The command and the answers used while the session's failure paths are
\* explored.
SessionPayloads == {Payload(ReadCmd, \h01, \h0b)}

SessionReports ==
    {EncodeReport(Payload(GetCmd, \h22, \h05)),
     EncodeReport(Payload(GetCmd, \h08, \h17))}

BoolSeqs(n) == UNION {[1 .. k -> BOOLEAN] : k \in 0 .. n}

\* Enumeration lists the host can return; once it has no handle left to
\* give, every open fails.
CandLists ==
    {c \in BoolSeqs(MaxCands) :
        (nextHandle > MaxHandles) => (\A i \in 1 .. Len(c) : ~c[i])}

WriteResults == {-1, 0, HIDREPORTNUM}
\* Every value hid_read_timeout can return on an open device.
ReadResults == {hid_read_timeout_result(1, o).ret : o \in ReadOsOutcomes}
CodecReadResults == {ShortLen, HIDREPORTNUM}
\* The read results and the answer used while two threads are explored.
ThreadReadResults == {-1, 0, HIDREPORTNUM}
ThreadReports == {EncodeReport(Payload(GetCmd, \h22, \h05))}

\* Handle of the failed write or read in a trace, NULL when none failed.
FailedIO(tr) ==
    {tr[i][2] : i \in {j \in 1 .. Len(tr) :
                         \/ tr[j][1] = "write" /\ tr[j][3] < 0
                         \/ tr[j][1] = "read" /\ tr[j][3] <= 0}}

FailedHandle(tr) == IF FailedIO(tr) = {} THEN NULL ELSE CHOOSE h \in FailedIO(tr) : TRUE

\* Identifiers a HID interface may carry, and the values an uninitialized
\* HIDD_ATTRIBUTES may hold.
VendorIds == {VendorID, VendorID + 1}
ProductIds == {ProductID, ProductID + 1}
Attribs == [VendorID : VendorIds, ProductID : ProductIds]

\* A HID interface of the host: its identifiers and whether the detail
\* query, CreateFile and HidD_GetAttributes succeed on it. A step that is
\* not reached keeps one fixed value.
HostDevices ==
    {d \in [vendor : VendorIds, product : ProductIds,
            detail : BOOLEAN, open : BOOLEAN, attrs : BOOLEAN] :
        /\ ~d.detail => ~d.open
        /\ ~d.open => ~d.attrs}

HostLists == UNION {[1 .. k -> HostDevices] : k \in 0 .. MaxDevs}

\* Threads of the hosting application that call ReadAndWriteToDevice.
Threads == {1, 2}

\* The value of ctl when the last operation was not a control call.
NoCtl == [fn |-> "none", arg |-> 0]

\* ------------------------------------------------------------------- Init
Init ==
    /\ DeviceHandle = NULL
    /\ MyDeviceDetected = FALSE
    /\ g_DeviceDetected = FALSE
    /\ Continue_Flag = FALSE
    /\ chan_num = 1
    /\ InputReport = ZeroBuf
    /\ OutputReport = ZeroBuf
    /\ TxData = ZeroBuf
    /\ RxData = ZeroBuf
    /\ fields = ResponseFields(ZeroBuf)
    /\ openHandles = {}
    /\ nextHandle = 1
    /\ trace = <<>>
    /\ g_InterfaceObj = FALSE
    /\ pc = "idle"
    /\ lastOp = "none"
    /\ retval = 0
    /\ preDet = FALSE
    /\ preHandle = NULL
    /\ prevFailH = NULL
    /\ hidCall = [device |-> NULL, os |-> NoReadOs] @@ hid_read_timeout_result(NULL, NoReadOs)
    /\ thr = [t \in Threads |-> [pc |-> "idle", h |-> NULL]]
    /\ ctl = NoCtl

\* Bookkeeping every operation does on entry.
Track(op) ==
    /\ lastOp' = op
    /\ preDet' = MyDeviceDetected
    /\ preHandle' = DeviceHandle
    /\ prevFailH' = IF lastOp = "exchange" THEN FailedHandle(trace) ELSE NULL

Enter(op) == Track(op) /\ ctl' = NoCtl /\ UNCHANGED <<hidCall, thr>>

\* ---------------------------------------------------------------- actions
\* A direct call of FindTheHID().
DoFindTheHID ==
    /\ pc = "idle"
    /\ \E cands \in CandLists :
          LET s == FindTheHID(Cur, cands)
          IN  /\ Store(s)
              /\ retval' = IF s.MyDeviceDetected THEN 1 ELSE 0
    /\ Enter("find")
    /\ UNCHANGED <<g_InterfaceObj, pc>>

\* A direct call of CloseHandles().
DoCloseHandles ==
    /\ pc = "idle"
    /\ Store(CloseHandles(Cur))
    /\ Enter("close")
    /\ retval' = 0
    /\ UNCHANGED <<g_InterfaceObj, pc>>

\* TRUE when an exchange that enumerates cands gets as far as hid_write.
WillWrite(cands) ==
    IF MyDeviceDetected = FALSE
    THEN \E i \in 1 .. Len(cands) : cands[i]
    ELSE DeviceHandle # NULL

\* One exchange: the caller fills TxData and calls ReadAndWriteToDevice().
\* The host's answers are drawn only for the calls the exchange makes.
Exchange(txs, candLists, wress, rress, reports) ==
    /\ \E tx \in txs :
       \E cands \in (IF MyDeviceDetected = FALSE THEN candLists ELSE {<<>>}) :
       \E wres \in (IF WillWrite(cands) THEN wress ELSE {-1}) :
       \E rres \in (IF wres < 0 THEN {-1} ELSE rress) :
       \E data \in (IF rres > 0 THEN reports ELSE {ZeroBuf}) :
          Store(ReadAndWriteToDevice([Cur EXCEPT !.TxData = tx],
                                     cands, wres, rres, data))
    /\ Enter("exchange")
    /\ retval' = 0
    /\ UNCHANGED <<g_InterfaceObj, pc>>

DoReadAndWriteToDevice ==
    Exchange(SessionPayloads, CandLists, WriteResults, ReadResults, SessionReports)

\* ULS24_Initialize up to the return 0, or up to the configuration calls.
ULS24_Initialize ==
    /\ pc = "idle"
    /\ \E cands \in CandLists :
          LET s == FindTheHID(Cur, cands)
          IN  /\ Store(s)
              /\ pc' = IF s.MyDeviceDetected THEN "init" ELSE "idle"
              /\ retval' = 0
    /\ g_InterfaceObj' = TRUE
    /\ Enter("initialize")

\* ULS24_Initialize after its configuration calls: return 1.
ULS24_InitializeReturn ==
    /\ pc = "init"
    /\ pc' = "idle"
    /\ retval' = 1
    /\ Store(Cur)
    /\ Enter("initialize_return")
    /\ UNCHANGED g_InterfaceObj

ULS24_Cleanup ==
    /\ pc = "idle"
    /\ g_InterfaceObj' = FALSE
    /\ Store(CloseHandles(Cur))
    /\ Enter("cleanup")
    /\ retval' = 0
    /\ UNCHANGED pc

ULS24_Reset ==
    /\ pc = "idle"
    /\ \E cands \in CandLists :
          LET s == FindTheHID(Cur, cands)
          IN  /\ Store(s)
              /\ retval' = IF s.MyDeviceDetected THEN 1 ELSE 0
    /\ Enter("reset")
    /\ UNCHANGED <<g_InterfaceObj, pc>>

\* The test at the head of a control call, accepting channel 0.
ControlGuard_ZeroChannel(fn, obj, arg) ==
    CASE fn = "ULS24_SelectChannel" -> ~(~obj \/ arg < 0 \/ arg > 4)
      [] fn = "ULS24_SetIntegrationTime" -> ~(~obj \/ arg < 1 \/ arg > 66000)
      [] fn = "ULS24_SetGainMode" -> ~(~obj \/ (arg # 0 /\ arg # 1))
      [] fn = "ULS24_CaptureFrame" -> ~(~obj \/ arg < 0 \/ arg > 4)

\* The test at the head of a control call: TRUE when the call goes on to the
\* interface object, FALSE when it returns 0 at once.
ControlGuard(fn, obj, arg) ==
    CASE fn = "ULS24_SelectChannel" -> ~(~obj \/ arg < 1 \/ arg > 4)
      [] fn = "ULS24_SetIntegrationTime" -> ~(~obj \/ arg < 1 \/ arg > 66000)
      [] fn = "ULS24_SetGainMode" -> ~(~obj \/ (arg # 0 /\ arg # 1))
      [] fn = "ULS24_CaptureFrame" -> ~(~obj \/ arg < 1 \/ arg > 4)

\* The control calls and the arguments they are tried with.
ControlCalls ==
    ({"ULS24_SelectChannel"} \X {0, 1, 5}) \cup
    ({"ULS24_CaptureFrame"} \X {0, 4, 5}) \cup
    ({"ULS24_SetIntegrationTime"} \X {0, 66000, 66001}) \cup
    ({"ULS24_SetGainMode"} \X {-1, 0, 2})

\* What the interface object does for a control call: a command is put in
\* TxData and exchanged with the device. CaptureFrame12 reports a result of
\* its own, the other calls none.
InterfaceObjCall(fn, s, cands, wres, rres, data) ==
    [state |-> ReadAndWriteToDevice(s, cands, wres, rres, data),
     results |-> IF fn = "ULS24_CaptureFrame" THEN {0, 1} ELSE {0}]

\* ULS24_SelectChannel, ULS24_SetIntegrationTime, ULS24_SetGainMode and
\* ULS24_CaptureFrame.
ULS24_Control ==
    /\ pc = "idle"
    /\ \E c \in ControlCalls :
          /\ ctl' = [fn |-> c[1], arg |-> c[2]]
          /\ IF ControlGuard(c[1], g_InterfaceObj, c[2])
             THEN \E tx \in SessionPayloads :
                  \E cands \in (IF MyDeviceDetected = FALSE THEN CandLists ELSE {<<>>}) :
                  \E wres \in (IF WillWrite(cands) THEN {-1, HIDREPORTNUM} ELSE {-1}) :
                  \E rres \in (IF wres < 0 THEN {-1} ELSE {0, HIDREPORTNUM}) :
                  \E data \in (IF rres > 0 THEN ThreadReports ELSE {ZeroBuf}) :
                     LET r == InterfaceObjCall(c[1], [Cur EXCEPT !.TxData = tx],
                                               cands, wres, rres, data)
                     IN  /\ Store(r.state)
                         /\ \E result \in r.results :
                               retval' = IF result = 0 THEN 1 ELSE 0
             ELSE /\ Store(Cur)
                  /\ retval' = 0
    /\ Track("control")
    /\ UNCHANGED <<g_InterfaceObj, pc, hidCall, thr>>

NextFacade ==
    \/ ULS24_Initialize
    \/ ULS24_InitializeReturn
    \/ ULS24_Cleanup
    \/ ULS24_Reset
    \/ ULS24_Control

\* The program as an application that uses only the exported functions
\* drives it.
SpecFacade == Init /\ [][NextFacade]_vars

Next ==
    \/ DoFindTheHID
    \/ DoCloseHandles
    \/ DoReadAndWriteToDevice
    \/ ULS24_Initialize
    \/ ULS24_InitializeReturn
    \/ ULS24_Cleanup
    \/ ULS24_Reset

Spec == Init /\ [][Next]_vars

\* ------------------------------------------------- the codec on its own
\* The same program with a device that is always found and never fails,
\* answering with every report of DeviceReports, whole or cut short.
CodecExchange ==
    Exchange(TxPayloads, {<<TRUE>>}, {HIDREPORTNUM}, CodecReadResults,
             DeviceReports)

SpecCodec == Init /\ [][CodecExchange]_vars

\* ------------------------------------------------- hidapi called directly
\* hid_open_path(path) called by an application; the handle is its own.
HidOpenPath ==
    /\ \E ok \in {b \in BOOLEAN : b => nextHandle <= MaxHandles} :
          /\ Store(hid_open_path(Cur, 1, ok))
          /\ retval' = OpenResult(Cur, ok)
    /\ Enter("hid_open_path")
    /\ UNCHANGED <<g_InterfaceObj, pc>>

\* hid_read_timeout(device, InputReport, HIDREPORTNUM, ms) on NULL or on an
\* open device.
HidReadTimeout ==
    /\ \E device \in {NULL} \cup openHandles, o \in ReadOsOutcomes :
          LET c == hid_read_timeout_result(device, o)
          IN  /\ Store(hid_read_timeout(Cur, device,
                                        EncodeReport(Payload(GetCmd, \h22, \h05)),
                                        HIDREPORTNUM, c.ret))
              /\ hidCall' = [device |-> device, os |-> o] @@ c
              /\ retval' = c.ret
    /\ Track("hid_read_timeout")
    /\ UNCHANGED <<g_InterfaceObj, pc, thr, ctl>>

\* hid_write(device, OutputReport, HIDREPORTNUM) on NULL or on an open device.
HidWrite ==
    /\ \E device \in {NULL} \cup openHandles, o \in WriteOsOutcomes :
          LET c == hid_write_result(device, o)
          IN  /\ Store(hid_write(Cur, device, HIDREPORTNUM, c.ret))
              /\ hidCall' = [device |-> device, os |-> o] @@ c
              /\ retval' = c.ret
    /\ Track("hid_write")
    /\ UNCHANGED <<g_InterfaceObj, pc, thr, ctl>>

\* hid_close(device) on NULL or on an open device.
HidClose ==
    /\ \E device \in {NULL} \cup openHandles : Store(hid_close(Cur, device))
    /\ retval' = 0
    /\ Enter("hid_close")
    /\ UNCHANGED <<g_InterfaceObj, pc>>

NextHid ==
    \/ HidOpenPath
    \/ HidReadTimeout
    \/ HidWrite
    \/ HidClose

SpecHid == Init /\ [][NextHid]_vars

\* ------------------------------------------------ hid_enumerate on its own
\* hid_enumerate(vendor_id, product_id) called by an application. The call
\* reads and leaves nothing of the program's state, so one call is explored.
HidEnumerate ==
    /\ lastOp = "none"
    /\ \E devs \in HostLists, attrib0 \in Attribs,
          vendor_id \in {0, VendorID}, product_id \in {0, ProductID} :
          LET list == hid_enumerate_list(devs, attrib0, vendor_id, product_id)
          IN  /\ Store(Log(Cur, <<"enumerate", Len(list), 0>>))
              /\ hidCall' = [devs |-> devs, attrib0 |-> attrib0,
                             vendor_id |-> vendor_id,
                             product_id |-> product_id, ret |-> list]
    /\ retval' = 0
    /\ Track("hid_enumerate")
    /\ UNCHANGED <<g_InterfaceObj, pc, thr, ctl>>

SpecEnum == Init /\ [][HidEnumerate]_vars

\* ------------------------------- ReadAndWriteToDevice called by two threads
\* The program has no lock: a thread runs the statements of
\* ReadAndWriteToDevice, WriteHIDOutputReport and ReadHIDInputReport one
\* after the other, and the other thread may run between any two of them.
\* A call of hid_write or hid_read_timeout takes two steps, its start and its
\* return. The globals are plain variables, so the pointer a call is given
\* is the value the guard saw or the value at the call.
Step(t, from, to, h) ==
    /\ thr[t].pc = from
    /\ thr' = [thr EXCEPT ![t] = [pc |-> to, h |-> h]]
    /\ UNCHANGED <<g_InterfaceObj, pc, lastOp, retval, preDet, preHandle,
                   prevFailH, hidCall, ctl>>

\* The caller fills TxData and enters; if (MyDeviceDetected==FALSE)
\* MyDeviceDetected=FindTheHID().
T_Find(t) ==
    \E tx \in SessionPayloads :
    \E cands \in (IF MyDeviceDetected = FALSE THEN CandLists ELSE {<<>>}) :
       LET s == [Cur EXCEPT !.TxData = tx]
       IN  /\ Store(IF MyDeviceDetected = FALSE THEN FindTheHID(s, cands) ELSE s)
           /\ Step(t, "idle", "guard", NULL)

\* if (MyDeviceDetected==TRUE)
T_Guard(t) ==
    /\ Store(Cur)
    /\ Step(t, "guard", IF MyDeviceDetected = TRUE THEN "write" ELSE "done", NULL)

\* WriteHIDOutputReport: the copy into OutputReport and if (DeviceHandle != NULL).
T_WriteGuard(t) ==
    /\ Store([Cur EXCEPT !.OutputReport = EncodeReport(TxData)])
    /\ Step(t, "write", IF DeviceHandle # NULL THEN "wcall" ELSE "read", DeviceHandle)

\* hid_write(DeviceHandle, ...) starts.
T_WriteCall(t) ==
    \E device \in {thr[t].h, DeviceHandle} :
       /\ Store(Cur)
       /\ Step(t, "wcall", "writing", device)

\* hid_write returns; on result < 0: CloseHandles(), MyDeviceDetected = FALSE.
T_WriteReturn(t) ==
    \E wres \in (IF thr[t].h = NULL THEN {-1} ELSE WriteResults) :
       LET s == hid_write(Cur, thr[t].h, HIDREPORTNUM, wres)
       IN  /\ Store(IF wres < 0
                    THEN [CloseHandles(s) EXCEPT !.MyDeviceDetected = FALSE]
                    ELSE s)
           /\ Step(t, "writing", "read", NULL)

\* ReadHIDInputReport: InputReport[0] = 0 and if (DeviceHandle != NULL).
T_ReadGuard(t) ==
    /\ Store([Cur EXCEPT !.InputReport[0] = 0])
    /\ Step(t, "read", IF DeviceHandle # NULL THEN "rcall" ELSE "done", DeviceHandle)

\* hid_read_timeout(DeviceHandle, ...) starts.
T_ReadCall(t) ==
    \E device \in {thr[t].h, DeviceHandle} :
       /\ Store(Cur)
       /\ Step(t, "rcall", "reading", device)

\* hid_read_timeout returns: the decoder on result > 0, otherwise
\* CloseHandles(), MyDeviceDetected = FALSE.
T_ReadReturn(t) ==
    \E rres \in (IF thr[t].h = NULL THEN {-1} ELSE ThreadReadResults) :
    \E data \in (IF rres > 0 THEN ThreadReports ELSE {ZeroBuf}) :
       LET s == hid_read_timeout(Cur, thr[t].h, data, HIDREPORTNUM, rres)
       IN  /\ Store(IF rres > 0
                    THEN DecodeResponse(
                             [s EXCEPT !.RxData = StripReportId(@, s.InputReport)])
                    ELSE [CloseHandles(s) EXCEPT !.MyDeviceDetected = FALSE])
           /\ Step(t, "reading", "done", NULL)

\* ReadAndWriteToDevice returns to the caller.
T_Return(t) ==
    /\ Store(Cur)
    /\ Step(t, "done", "idle", NULL)

NextThreads ==
    \E t \in Threads :
       \/ T_Find(t)
       \/ T_Guard(t)
       \/ T_WriteGuard(t)
       \/ T_WriteCall(t)
       \/ T_WriteReturn(t)
       \/ T_ReadGuard(t)
       \/ T_ReadCall(t)
       \/ T_ReadReturn(t)
       \/ T_Return(t)

SpecThreads == Init /\ [][NextThreads]_vars

\* ------------------------------------------------------ reading the trace
Idx(tr) == 1 .. Len(tr)
Calls(tr, op) == {i \in Idx(tr) : tr[i][1] = op}
IOCalls(tr) == Calls(tr, "write") \cup Calls(tr, "read")
Discovery(tr) == Calls(tr, "enumerate") \cup Calls(tr, "open")
OpenedOk(tr) == {i \in Calls(tr, "open") : tr[i][3] # NULL}
WriteFailed(tr) == {i \in Calls(tr, "write") : tr[i][3] < 0}
ReadTimedOut(tr) == {i \in Calls(tr, "read") : tr[i][3] = 0}
ReadFailed(tr) == {i \in Calls(tr, "read") : tr[i][3] < 0}
ReadGotData == lastOp = "exchange" /\ \E i \in Calls(trace, "read") : trace[i][3] > 0
ReadGotReport ==
    lastOp = "exchange" /\ \E i \in Calls(trace, "read") : trace[i][3] = HIDREPORTNUM

\* ----------------------------------------------------------------- claims

\* C1: at most one device handle opened by the session is open at any time;
\* a discovery closes the handle held from an earlier discovery first.
C1_AtMostOneOpenHandle == Cardinality(openHandles) <= 1

\* C2: an exchange whose write failed, or whose read timed out or failed,
\* returns with the handle closed, DeviceHandle NULL and MyDeviceDetected
\* FALSE.
C2_FailureClosesHandle ==
    (lastOp = "exchange" /\
     (WriteFailed(trace) \cup ReadTimedOut(trace) \cup ReadFailed(trace)) # {})
    => /\ DeviceHandle = NULL
       /\ MyDeviceDetected = FALSE
       /\ FailedHandle(trace) \notin openHandles

C2_Witness ==
    /\ lastOp = "exchange"
    /\ preDet
    /\ ReadTimedOut(trace) # {}
    /\ DeviceHandle = NULL

\* C3: the exchange that follows a failed exchange starts with discovery,
\* issues every write and read on a handle that discovery just opened, and
\* never on the handle of the failure.
C3_RediscoverAfterFailure ==
    (lastOp = "exchange" /\ prevFailH # NULL)
    => /\ trace # <<>>
       /\ trace[1][1] = "enumerate"
       /\ \A i \in IOCalls(trace) :
             /\ trace[i][2] # prevFailH
             /\ \E j \in OpenedOk(trace) : j < i /\ trace[j][3] = trace[i][2]

C3_Witness ==
    /\ lastOp = "exchange"
    /\ prevFailH # NULL
    /\ Calls(trace, "write") # {}
    /\ Calls(trace, "read") # {}

\* C4: in one exchange at most one write and one read are issued, a read
\* only after a write that returned a count, and no read after a failed
\* write.
C4_WriteThenRead ==
    lastOp = "exchange"
    => /\ Cardinality(Calls(trace, "write")) <= 1
       /\ Cardinality(Calls(trace, "read")) <= 1
       /\ \A i \in Calls(trace, "read") :
             \E j \in Calls(trace, "write") :
                j < i /\ trace[j][3] >= 0 /\ trace[j][2] = trace[i][2]
       /\ WriteFailed(trace) # {} => Calls(trace, "read") = {}

C4_Witness ==
    /\ lastOp = "exchange"
    /\ \E j \in Calls(trace, "write") : \E i \in Calls(trace, "read") :
          j < i /\ trace[j][3] = HIDREPORTNUM

\* C5: a discovery opens the candidates in enumeration order, stops at the
\* first open that succeeds and adopts its handle; every earlier candidate
\* was tried and failed, no later one is opened.
C5_FirstOpenWins ==
    LET opens == Calls(trace, "open")
    IN  /\ \A i \in opens :
              \* the k-th open is of candidate k, within the enumerated list
              /\ trace[i][2] = Cardinality({j \in opens : j <= i})
              /\ \E e \in Calls(trace, "enumerate") : e < i /\ trace[i][2] <= trace[e][2]
        /\ \A i \in OpenedOk(trace) :
              /\ \A j \in opens : j < i => trace[j][3] = NULL
              /\ \A j \in opens : j <= i
              /\ lastOp \in {"find", "reset", "initialize"}
                    => DeviceHandle = trace[i][3]
              /\ \A k \in IOCalls(trace) : trace[k][2] = trace[i][3]

C5_Witness ==
    /\ lastOp = "find"
    /\ Len(trace) = 3
    /\ trace[1] = <<"enumerate", 2, 0>>
    /\ trace[2] = <<"open", 1, NULL>>
    /\ trace[3][1] = "open" /\ trace[3][3] # NULL
    /\ DeviceHandle = trace[3][3]

\* C6: an exchange that starts with MyDeviceDetected TRUE calls neither
\* enumerate nor open and issues its I/O on the handle it already held.
C6_ConnectedSkipsDiscovery ==
    (lastOp = "exchange" /\ preDet)
    => /\ Discovery(trace) = {}
       /\ \A i \in IOCalls(trace) : trace[i][2] = preHandle

C6_Witness ==
    /\ lastOp = "exchange"
    /\ preDet
    /\ \E i \in Calls(trace, "write") : trace[i][2] = preHandle
    /\ \E i \in Calls(trace, "read") : trace[i][2] = preHandle

\* C7: an exchange that starts not Connected and whose discovery opens no
\* candidate issues no write and no read and leaves MyDeviceDetected FALSE,
\* also right after a failed exchange.
C7_NoDeviceNoIO ==
    (lastOp = "exchange" /\ ~preDet /\ OpenedOk(trace) = {})
    => /\ IOCalls(trace) = {}
       /\ MyDeviceDetected = FALSE
       /\ Calls(trace, "enumerate") = {1}

C7_Witness ==
    /\ lastOp = "exchange"
    /\ prevFailH # NULL
    /\ OpenedOk(trace) = {}
    /\ Calls(trace, "open") # {}
    /\ MyDeviceDetected = FALSE

\* C8 as stated: a received 65-byte report is decoded from wire offsets 2, 4
\* and 5, so the echo of a payload P decodes to P[1], P[3], P[4].
C8_OffsetsAsClaimed ==
    ReadGotReport
    => /\ fields = [command_echo |-> InputReport[2],
                    response_type |-> InputReport[4],
                    marker_byte |-> InputReport[5]]
       /\ \A P \in Payloads :
             InputReport = EncodeReport(P)
             => fields = [command_echo |-> P[1], response_type |-> P[3],
                          marker_byte |-> P[4]]

\* C8 amended: a received 65-byte report is decoded from wire offsets 3, 5
\* and 6 (payload indexes 2, 4, 5), so the echo of a payload P decodes to
\* P[2], P[4], P[5].
C8_OffsetsInCode ==
    ReadGotReport
    => /\ fields = [command_echo |-> InputReport[3],
                    response_type |-> InputReport[5],
                    marker_byte |-> InputReport[6]]
       /\ \A P \in Payloads :
             InputReport = EncodeReport(P)
             => fields = [command_echo |-> P[2], response_type |-> P[4],
                          marker_byte |-> P[5]]

C8_Witness ==
    /\ ReadGotReport
    /\ InputReport = EncodeReport(Payload(GetCmd, \h22, \h05))
    /\ fields = [command_echo |-> GetCmd, response_type |-> \h22,
                 marker_byte |-> \h05]

\* C9: after a Get-class response of a channel-style type, chan_num is the
\* high nibble of the type plus one: 0x01, 0x02, 0x03 give 1, 0x12 gives 2,
\* 0x22 gives 3, 0x32 gives 4.
C9_ChannelFromHighNibble ==
    (ReadGotData /\ fields.command_echo = \h02)
    => /\ fields.response_type \in {\h01, \h02, \h03} => chan_num = 1
       /\ fields.response_type = \h12 => chan_num = 2
       /\ fields.response_type = \h22 => chan_num = 3
       /\ fields.response_type = \h32 => chan_num = 4

C9_Witness ==
    /\ ReadGotData
    /\ fields = [command_echo |-> \h02, response_type |-> \h22,
                 marker_byte |-> \h05]
    /\ chan_num = 3

\* C10: after a Get-class response of a channel-style type, Continue_Flag is
\* FALSE exactly when the marker byte is 0x0b or 0xf1.
C10_ChannelContinuation ==
    (ReadGotData /\ fields.command_echo = \h02 /\
     fields.response_type \in {\h01, \h02, \h12, \h22, \h32, \h03})
    => (Continue_Flag = FALSE <=> fields.marker_byte \in {\h0b, \hf1})

C10_Witness ==
    /\ ReadGotData
    /\ fields = [command_echo |-> \h02, response_type |-> \h12,
                 marker_byte |-> \h0b]
    /\ Continue_Flag = FALSE

\* The two response families, as the claims list them.
ChannelTypes == {\h01, \h02, \h12, \h22, \h32, \h03}
StatusTypes == {\h07, \h08, \h0b}

\* C11: a Get-class channel-style response with marker 0xf1 sets
\* Continue_Flag FALSE and chan_num from its type and changes nothing else:
\* the session stays Connected on the same open handle.
C11_SentinelStopsOnly ==
    [][(ReadGotData' /\ fields'.command_echo = \h02 /\
        fields'.response_type \in ChannelTypes /\ fields'.marker_byte = \hf1)
       => /\ Continue_Flag' = FALSE
          /\ chan_num' = (fields'.response_type \div 16) + 1
          /\ MyDeviceDetected' = TRUE
          /\ DeviceHandle' # NULL
          /\ DeviceHandle' \in openHandles'
          /\ Calls(trace', "close") = {}
          /\ MyDeviceDetected
                => /\ DeviceHandle' = DeviceHandle
                   /\ openHandles' = openHandles
                   /\ g_DeviceDetected' = g_DeviceDetected]_vars

C11_Witness ==
    /\ ReadGotData
    /\ fields = [command_echo |-> \h02, response_type |-> \h32,
                 marker_byte |-> \hf1]
    /\ preDet
    /\ Continue_Flag = FALSE
    /\ chan_num = 4
    /\ MyDeviceDetected = TRUE
    /\ DeviceHandle = preHandle
    /\ DeviceHandle \in openHandles

\* C12: a Get-class response of type 0x07, 0x08 or 0x0b sets Continue_Flag
\* FALSE exactly when the marker byte is 0x17 and leaves chan_num as it was.
C12_StatusContinuation ==
    [][(ReadGotData' /\ fields'.command_echo = \h02 /\
        fields'.response_type \in StatusTypes)
       => /\ Continue_Flag' = (fields'.marker_byte # \h17)
          /\ chan_num' = chan_num]_vars

C12_Witness ==
    /\ ReadGotData
    /\ fields = [command_echo |-> \h02, response_type |-> \h08,
                 marker_byte |-> \h17]
    /\ Continue_Flag = FALSE
    /\ chan_num = 3

\* C13: a response whose command echo is not Get-class, or whose type is in
\* neither family, leaves chan_num and Continue_Flag as they were and does
\* not fault the session.
C13_UnrecognizedIgnored ==
    [][(ReadGotData' /\
        (fields'.command_echo # \h02 \/
         fields'.response_type \notin (ChannelTypes \cup StatusTypes)))
       => /\ chan_num' = chan_num
          /\ Continue_Flag' = Continue_Flag
          /\ MyDeviceDetected' = TRUE
          /\ DeviceHandle' \in openHandles'
          /\ Calls(trace', "close") = {}]_vars

C13_Witness ==
    /\ ReadGotData
    /\ fields.command_echo = \h02
    /\ fields.response_type = \h42
    /\ chan_num = 3
    /\ Continue_Flag = TRUE
    /\ MyDeviceDetected = TRUE

\* C14: chan_num and Continue_Flag change only in an exchange whose read
\* returned data; discovery, a failed write, a read timeout, a read error,
\* CloseHandles, cleanup and reset leave both as they were.
C14_ProtocolStateOnlyByDecode ==
    [][(chan_num' # chan_num \/ Continue_Flag' # Continue_Flag)
       => ReadGotData']_vars

C14_Witness ==
    /\ lastOp = "exchange"
    /\ prevFailH # NULL
    /\ ReadTimedOut(trace) # {}
    /\ OpenedOk(trace) # {}
    /\ chan_num = 3
    /\ Continue_Flag = TRUE

\* C15: chan_num is always an integer in 1..16.
C15_ChannelRange == chan_num \in 1 .. 16

C15_Witness ==
    /\ ReadGotData
    /\ fields.response_type = \h32
    /\ chan_num = 4

\* C16: the report given to the transport write is 65 bytes, byte 0 is the
\* report identifier 0 and byte i + 1 is payload byte i for i in 0..63; every
\* read asks for 65 bytes.
C16_ReportFraming ==
    lastOp = "exchange"
    => /\ \A w \in Calls(trace, "write") :
             /\ trace[w][4] = 65
             /\ DOMAIN OutputReport = 0 .. 64
             /\ OutputReport[0] = 0
             /\ \A i \in 0 .. 63 : OutputReport[i + 1] = TxData[i]
       /\ \A r \in Calls(trace, "read") : trace[r][4] = 65

C16_Witness ==
    /\ lastOp = "exchange"
    /\ Calls(trace, "write") # {}
    /\ Calls(trace, "read") # {}
    /\ TxData = Payload(GetCmd, \h22, \h05)
    /\ OutputReport[3] = GetCmd
    /\ OutputReport[5] = \h22
    /\ OutputReport[6] = \h05

\* C17: a write that returns a count in 0..64 is handled as an error: the
\* handle is closed, the session leaves Connected and no read follows.
C17_ShortWriteIsError ==
    lastOp = "exchange"
    => \A w \in Calls(trace, "write") :
          trace[w][3] \in 0 .. 64
          => /\ DeviceHandle = NULL
             /\ MyDeviceDetected = FALSE
             /\ trace[w][2] \notin openHandles
             /\ Calls(trace, "read") = {}

\* C18: a read that returns a count in 1..64 is not decoded: chan_num and
\* Continue_Flag stay as they were.
C18_ShortReadNotDecoded ==
    [][(lastOp' = "exchange" /\
        \E r \in Calls(trace', "read") : trace'[r][3] \in 1 .. 64)
       => /\ chan_num' = chan_num
          /\ Continue_Flag' = Continue_Flag]_vars

\* C19: hid_read_timeout returns a positive count when data arrived, 0 when
\* none arrived, -1 when the call failed (a NULL device included); when the
\* wait timed out it returns 0 after CancelIo, with no read left outstanding.
C19_ReadTimeoutOutcomes ==
    lastOp = "hid_read_timeout"
    => LET c == hidCall
           o == hidCall.os
           submitted == c.device # NULL
           completed == \/ o.readFile = "done"
                        \/ o.readFile = "pending" /\ o.wait = "signaled" /\ o.overlapped
           timedOut == o.readFile = "pending" /\ o.wait = "timeout"
           failed == \/ o.readFile = "error"
                     \/ o.readFile = "pending" /\ o.wait = "failed"
                     \/ o.readFile = "pending" /\ o.wait = "signaled" /\ ~o.overlapped
       IN  /\ c.ret \in {-1} \cup (0 .. HIDREPORTNUM)
           /\ c.device = NULL => c.ret = -1
           /\ c.ret > 0 <=> (submitted /\ completed /\ o.bytes > 0)
           /\ c.ret > 0 => c.ret = o.bytes
           /\ c.ret = -1 <=> (~submitted \/ failed)
           /\ c.ret = 0 <=> (submitted /\ (timedOut \/ (completed /\ o.bytes = 0)))
           /\ (submitted /\ timedOut) => (c.ret = 0 /\ c.cancelIo /\ ~c.pending)

C19_Witness ==
    /\ lastOp = "hid_read_timeout"
    /\ hidCall.device # NULL
    /\ hidCall.os.readFile = "pending"
    /\ hidCall.os.wait = "timeout"
    /\ hidCall.ret = 0
    /\ hidCall.cancelIo
    /\ ~hidCall.pending

\* What the caller of ReadAndWriteToDevice has after the call: the function
\* returns void, so only the globals; the answers hidapi gave are not kept.
CallerView(s) == [f \in DOMAIN s \ {"trace"} |-> s[f]]

\* TRUE when two exchanges made the same transport calls with the same
\* answers, the value returned by the read left aside.
SameCallsButRead(tr1, tr2) ==
    /\ Len(tr1) = Len(tr2)
    /\ \A i \in Idx(tr1) :
          IF tr1[i][1] = "read"
          THEN tr2[i][1] = "read" /\ tr2[i][2] = tr1[i][2] /\ tr2[i][4] = tr1[i][4]
          ELSE tr2[i] = tr1[i]

\* C20: an exchange whose read timed out leaves its caller with a result that
\* differs from the result of the same exchange with a read that failed.
C20_TimeoutDistinctFromError ==
    [][(lastOp' = "exchange" /\ ReadTimedOut(trace') # {})
       => \A cands \in CandLists, wres \in WriteResults :
             LET e == ReadAndWriteToDevice([Cur EXCEPT !.TxData = TxData'],
                                           cands, wres, -1, ZeroBuf)
             IN  (/\ ReadFailed(e.trace) # {}
                  /\ SameCallsButRead(e.trace, trace'))
                 => (CallerView(e) # CallerView(Cur') \/ retval' # 0)]_vars

\* C21: CloseHandles with DeviceHandle NULL makes no transport call and
\* changes nothing, hid_close(NULL) does nothing, and every hid_close the
\* session makes is on a handle that is open, once per operation.
C21_CloseIdempotent ==
    [][/\ hid_close(Cur, NULL) = Cur
       /\ (lastOp' \in {"close", "cleanup"} /\ DeviceHandle = NULL)
             => (trace' = <<>> /\ Cur' = Cur)
       /\ \A i \in Calls(trace', "close") :
             /\ \/ trace'[i][2] \in openHandles
                \/ \E k \in OpenedOk(trace') : k < i /\ trace'[k][3] = trace'[i][2]
             /\ trace'[i][2] \notin openHandles'
             /\ \A j \in Calls(trace', "close") : trace'[j][2] = trace'[i][2] => j = i
      ]_vars

\* CloseHandles called with no handle held, after a handle had been opened.
C21_Witness ==
    /\ lastOp = "close"
    /\ preHandle = NULL
    /\ nextHandle > 1
    /\ trace = <<>>
    /\ DeviceHandle = NULL

\* TRUE when the operation that made the calls of tr ran a discovery and
\* made every write and read after it.
DiscoveryFirst(tr) ==
    \E d \in Calls(tr, "enumerate") : \A i \in IOCalls(tr) : d < i

\* C22 as claimed: the exchange that follows ULS24_Reset runs a discovery
\* before any write or read, and makes no write or read on the handle held
\* before the reset.
C22_ResetForcesDiscoveryOnNextUse ==
    [][(lastOp = "reset" /\ lastOp' = "exchange")
       => /\ DiscoveryFirst(trace')
          /\ \A i \in IOCalls(trace') : preHandle = NULL \/ trace'[i][2] # preHandle
      ]_vars

\* C22 as the code has it: ULS24_Reset runs the discovery itself. The
\* exchange that follows runs one only when the reset adopted no handle;
\* otherwise it writes and reads on the handle the reset opened. In both
\* cases it makes no write or read on the handle held before the reset.
C22_ResetRediscovers ==
    [][/\ lastOp' = "reset" => Calls(trace', "enumerate") # {}
       /\ (lastOp = "reset" /\ lastOp' = "exchange")
          => /\ retval = 0 => DiscoveryFirst(trace')
             /\ retval = 1
                   => /\ Discovery(trace') = {}
                      /\ \A i \in IOCalls(trace') :
                            \E k \in OpenedOk(trace) : trace[k][3] = trace'[i][2]
             /\ \A i \in IOCalls(trace') : preHandle = NULL \/ trace'[i][2] # preHandle
      ]_vars

\* ULS24_Reset called while a handle was held has run a discovery and
\* adopted another handle; the old one is still open.
C22_Witness ==
    /\ lastOp = "reset"
    /\ preDet = TRUE
    /\ preHandle # NULL
    /\ retval = 1
    /\ DeviceHandle \notin {NULL, preHandle}
    /\ preHandle \in openHandles

\* A thread is inside hid_write or hid_read_timeout on a device.
InFlight(t) == thr[t].pc \in {"writing", "reading"} /\ thr[t].h # NULL

\* C23: two threads are never inside a write or read on the same handle at
\* the same time, and no thread is inside a write or read on a handle that
\* has been closed.
C23_ExclusiveHandleAccess ==
    /\ \A t1 \in Threads, t2 \in Threads :
          (t1 # t2 /\ InFlight(t1) /\ InFlight(t2)) => thr[t1].h # thr[t2].h
    /\ \A t \in Threads : InFlight(t) => thr[t].h \in openHandles

\* C24: hid_write returns -1 exactly when the device is NULL, WriteFile fails
\* with an error other than pending, or the wait for the completion fails;
\* otherwise it returns the bytes written, and then the write has completed.
C24_WriteOutcomes ==
    lastOp = "hid_write"
    => LET c == hidCall
           o == hidCall.os
           failed == \/ c.device = NULL
                     \/ o.writeFile = "error"
                     \/ o.writeFile = "pending" /\ o.overlapped # "ok"
       IN  /\ c.ret = -1 <=> failed
           /\ ~failed => (c.ret = o.bytes /\ c.ret >= 0)
           /\ c.ret >= 0 => ~c.pending
           /\ retval = c.ret

\* A write that stayed pending, was waited for and completed in full.
C24_Witness ==
    /\ lastOp = "hid_write"
    /\ hidCall.device # NULL
    /\ hidCall.os.writeFile = "pending"
    /\ hidCall.os.overlapped = "ok"
    /\ hidCall.ret = HIDREPORTNUM
    /\ ~hidCall.pending

\* The interfaces of devs that can be opened and carry the identifiers asked
\* for, in the host's order.
Matching(devs, vendor_id, product_id) ==
    SelectSeq([i \in 1 .. Len(devs) |-> i],
              LAMBDA i : /\ devs[i].detail /\ devs[i].open
                         /\ (vendor_id = 0 \/ devs[i].vendor = vendor_id)
                         /\ (product_id = 0 \/ devs[i].product = product_id))

\* C25: hid_enumerate returns, in the host's order, exactly the openable
\* interfaces whose identifiers match, a zero identifier matching any value.
C25_EnumerateExactlyMatching ==
    lastOp = "hid_enumerate"
    => [k \in 1 .. Len(hidCall.ret) |-> hidCall.ret[k].path]
         = Matching(hidCall.devs, hidCall.vendor_id, hidCall.product_id)

\* C26: in every reachable state MyDeviceDetected is TRUE exactly when
\* DeviceHandle is not NULL.
C26_FlagAgreesWithHandle == MyDeviceDetected <=> (DeviceHandle # NULL)

\* TRUE when handle h is open just before call i of an operation that made
\* the calls of tr from a state in which the handles of open0 were open.
OpenAt(tr, i, h, open0) ==
    /\ h # NULL
    /\ (h \in open0 \/ \E k \in OpenedOk(tr) : k < i /\ tr[k][3] = h)
    /\ ~\E k \in Calls(tr, "close") : k < i /\ tr[k][2] = h

\* C27: every hid_write, hid_read_timeout and hid_close of an operation is
\* on a handle that is open when the call is made, and the handle the
\* session keeps is never one that has been closed.
C27_NoUseAfterClose ==
    [][/\ \A i \in IOCalls(trace') \cup Calls(trace', "close") :
             OpenAt(trace', i, trace'[i][2], openHandles)
       /\ DeviceHandle' # NULL => DeviceHandle' \in openHandles'
      ]_vars

\* An exchange whose write failed: the handle was closed and no read
\* followed on it.
C27_Witness ==
    /\ lastOp = "exchange"
    /\ WriteFailed(trace) # {}
    /\ \E i \in Calls(trace, "close") : \E j \in WriteFailed(trace) :
          j < i /\ trace[i][2] = trace[j][2]
    /\ Calls(trace, "read") = {}
    /\ DeviceHandle = NULL

\* C28: after an exchange whose read returned data, whatever the bytes, the
\* session is still connected on the handle the read was made on, that handle
\* is open, and the exchange closed nothing.
C28_DataReadKeepsSession ==
    ReadGotData
    => /\ MyDeviceDetected = TRUE
       /\ DeviceHandle # NULL
       /\ DeviceHandle \in openHandles
       /\ \A i \in Calls(trace, "read") : trace[i][2] = DeviceHandle
       /\ Calls(trace, "close") = {}
       /\ preDet => DeviceHandle = preHandle

\* A data read whose command echo the decoder does not know, on the handle
\* the session already held.
C28_Witness ==
    /\ ReadGotData
    /\ fields.command_echo = ReadCmd
    /\ preDet
    /\ DeviceHandle = preHandle
    /\ DeviceHandle \in openHandles
    /\ MyDeviceDetected = TRUE

\* C29: when ULS24_Cleanup has returned, no handle the session opened is
\* still open.
C29_CleanupLeavesNothingOpen == lastOp = "cleanup" => openHandles = {}

\* The argument ranges of the control calls.
InRange(fn, arg) ==
    \/ fn \in {"ULS24_SelectChannel", "ULS24_CaptureFrame"} /\ arg \in 1 .. 4
    \/ fn = "ULS24_SetIntegrationTime" /\ arg \in 1 .. 66000
    \/ fn = "ULS24_SetGainMode" /\ arg \in {0, 1}

\* C30: a control call made while no interface object exists, or with an
\* argument out of range, returns 0, makes no transport call and changes
\* nothing; ULS24_Reset and ULS24_Initialize return 1 exactly when their
\* discovery opened a device and adopted its handle.
C30_FacadeGuardsAndResults ==
    [][/\ (lastOp' = "control" /\
           (~g_InterfaceObj \/ ~InRange(ctl'.fn, ctl'.arg)))
          => (retval' = 0 /\ trace' = <<>> /\ Cur' = Cur)
       /\ lastOp' = "reset"
          => /\ retval' \in {0, 1}
             /\ retval' = 1 <=> OpenedOk(trace') # {}
             /\ retval' = 1 => \E k \in OpenedOk(trace') :
                                  /\ trace'[k][3] = DeviceHandle'
                                  /\ DeviceHandle' \in openHandles'
       /\ lastOp' = "initialize"
          => /\ retval' = 0
             /\ pc' = "init" <=> OpenedOk(trace') # {}
             /\ pc' = "init" => \E k \in OpenedOk(trace') :
                                   /\ trace'[k][3] = DeviceHandle'
                                   /\ DeviceHandle' \in openHandles'
       /\ lastOp' = "initialize_return" => (pc = "init" /\ retval' = 1)
      ]_vars

\* ULS24_SelectChannel(5) called while the interface object exists and a
\* device is connected: 0 is returned and nothing was sent.
C30_Witness ==
    /\ lastOp = "control"
    /\ ctl = [fn |-> "ULS24_SelectChannel", arg |-> 5]
    /\ g_InterfaceObj
    /\ MyDeviceDetected
    /\ DeviceHandle \in openHandles
    /\ retval = 0
    /\ trace = <<>>

\* C31: g_DeviceDetected is written only by FindTheHID and equals FindTheHID's
\* return value when it returns: an operation that runs no discovery leaves
\* it unchanged, and one that runs a discovery leaves it TRUE exactly when an
\* open succeeded. A failed write, a read timeout, a read error and
\* CloseHandles leave it unchanged, so after an I/O failure it may differ
\* from MyDeviceDetected.
IOFailed(tr) == WriteFailed(tr) \cup ReadTimedOut(tr) \cup ReadFailed(tr)

C31_SecondaryFlagOnlyByDiscovery ==
    [][/\ Calls(trace', "enumerate") = {}
          => g_DeviceDetected' = g_DeviceDetected
       /\ (lastOp' \in {"find", "reset", "initialize", "exchange"} /\
           Calls(trace', "enumerate") # {})
          => g_DeviceDetected' = (OpenedOk(trace') # {})
       /\ lastOp' \in {"find", "reset"}
          => /\ g_DeviceDetected' = (retval' = 1)
             /\ g_DeviceDetected' = MyDeviceDetected'
       /\ lastOp' = "initialize"
          => /\ g_DeviceDetected' = (pc' = "init")
             /\ g_DeviceDetected' = MyDeviceDetected'
       /\ lastOp' \in {"close", "cleanup"}
          => g_DeviceDetected' = g_DeviceDetected
       /\ (lastOp' = "exchange" /\ MyDeviceDetected /\ IOFailed(trace') # {})
          => /\ g_DeviceDetected' = g_DeviceDetected
             /\ MyDeviceDetected' = FALSE
      ]_vars

\* A read that timed out on a connected session: MyDeviceDetected went to
\* FALSE and the handle was closed, while g_DeviceDetected still says TRUE.
C31_Witness ==
    /\ lastOp = "exchange"
    /\ preDet
    /\ ReadTimedOut(trace) # {}
    /\ Calls(trace, "enumerate") = {}
    /\ DeviceHandle = NULL
    /\ MyDeviceDetected = FALSE
    /\ g_DeviceDetected = TRUE

====
